---- MODULE Spec2Model ----
(***************************************************************************)
(* The kubernetes-cluster monitor's DatapointCache and the PodServiceCache *)
(* join index it drives (signalfx-agent).                                  *)
(*                                                                         *)
(* Go maps are functions with a finite domain; a lookup of a missing key   *)
(* yields the zero value (Lookup).  A Go set map[UID]bool is a set.  A pod *)
(* without labels carries the nil label map, modelled as the function with *)
(* the empty domain, which is also what a lookup of a missing key gives.   *)
(*                                                                         *)
(* Spec: the DatapointCache under whole calls of its handlers.             *)
(* SpecLocked: the handlers step by step under the mutex, with readers.    *)
(* SpecCaches: a PodCache and a ServiceCache under calls of their methods. *)
(* SpecLinks: addDimPropsToCache with a property link in its list.        *)
(***************************************************************************)
EXTENDS Integers, Sequences, FiniteSets, TLC

\* ------------------------------------------------------------- bounds
NumPods == 2
NumSvcs == 2
NumNodes == 1

\* ------------------------------------------------------------- inputs
PodUIDs == {<<"pod", i>> : i \in 1..NumPods}
SvcUIDs == {<<"svc", i>> : i \in 1..NumSvcs}
NodeUIDs == {<<"node", i>> : i \in 1..NumNodes}
UIDs == PodUIDs \cup SvcUIDs \cup NodeUIDs

Namespaces == {"ns", "ns2"}

\* Service names in the order sort.Strings gives them; "" is the zero value
\* a lookup of a missing name yields.
NameOrder == <<"", "web-a", "web-b">>
ServiceNames == {"web-a", "web-b"}

EmptyMap == <<>>
AppFoo == [k \in {"app"} |-> "foo"]
AppBar == [k \in {"app"} |-> "bar"]

\* pod.Labels: nil, or a non-empty map
LabelSets == {EmptyMap, AppFoo}
\* svc.Spec.Selector: nil, or a non-empty map
SelectorMaps == {EmptyMap, AppFoo, AppBar}

Pods == [kind : {"Pod"}, UID : PodUIDs, Namespace : Namespaces, Labels : LabelSets]
Services ==
  [kind : {"Service"}, UID : SvcUIDs, Namespace : Namespaces,
   Name : ServiceNames, Selector : SelectorMaps]
Nodes == [kind : {"Node"}, UID : NodeUIDs, Ready : {TRUE}]
\* A resource of a type the switch of HandleAdd has no case for: its
\* ObjectMeta, and so its UID, is there
ConfigMaps == [kind : {"ConfigMap"}, UID : {<<"cm", 1>>}]
\* A runtime.Object without ObjectMeta (a *metav1.Status): no UID to read
Statuses == {[kind |-> "Status"]}
Objects == Pods \cup Services \cup Nodes \cup ConfigMaps \cup Statuses

\* A deleted object counts by its identity alone: one object per UID
DeletedObjects ==
  {CHOOSE obj \in Pods \cup Services \cup Nodes : obj.UID = key : key \in UIDs}

\* ------------------------------------------------------------- Go maps
Lookup(m, k, zero) == IF k \in DOMAIN m THEN m[k] ELSE zero
MapSet(m, k, v) == [x \in (DOMAIN m) \cup {k} |-> IF x = k THEN v ELSE m[x]]
MapDelete(m, k) == [x \in (DOMAIN m) \ {k} |-> m[x]]

\* ------------------------------------------------------------- state
VARIABLES
  dpCache,          \* dc.dpCache: UID -> samples
  dimPropCache,     \* dc.dimPropCache: UID -> DimProperties
  uidKindCache,     \* dc.uidKindCache: UID -> kind
  podServiceCache,  \* dc.podServiceCache: the PodServiceCache's seven maps
  panicked,         \* a handler dereferenced a missing dimPropCache record
  mu,               \* dc.Mutex: who holds it
  writer,           \* the writing goroutine: its place in the call it makes
  reader,           \* the reading goroutine: its place in the call it makes
  snapshot,         \* what the reader's last call returned
  podCache,         \* a PodCache: its four maps
  serviceCache      \* a ServiceCache: its four maps

cache == <<dpCache, dimPropCache, uidKindCache, podServiceCache, panicked>>
goroutines == <<mu, writer, reader, snapshot>>
caches == <<podCache, serviceCache>>
vars == <<cache, goroutines, caches>>

\* ------------------------------------------------------------- selectors
\* The nil labels.Selector interface a lookup of a missing key yields.  It is
\* DeepEqual to no internalSelector, the empty one included.
NilSelector == [nil |-> TRUE]

\* labels.Set.AsSelectorPreValidated: one equality requirement per entry.  The
\* code keeps them as a list sorted by key; with one requirement per key that
\* list is determined by the set of its requirements.
AsSelectorPreValidated(ls) ==
  [requirements |-> {[key |-> k, value |-> ls[k]] : k \in DOMAIN ls}]

\* Selector.Empty
Empty(selector) == selector = NilSelector \/ selector.requirements = {}

\* Selector.Matches: every requirement is met by the label set
Matches(selector, labelSet) ==
  \A r \in selector.requirements :
    r.key \in DOMAIN labelSet /\ labelSet[r.key] = r.value

\* ------------------------------------------------------------- ServiceCache
NewServiceCache ==
  [svcUIDNamespaceCache |-> <<>>, svcUIDNameCache |-> <<>>,
   svcUIDSelectorCache |-> <<>>, svcUIDPodsCache |-> <<>>]

\* ServiceCache.IsCached
ServiceCacheIsCached(sc, svc) ==
  LET selector == AsSelectorPreValidated(svc.Selector)
      cachedNamespace == Lookup(sc.svcUIDNamespaceCache, svc.UID, "")
      cachedSelector == Lookup(sc.svcUIDSelectorCache, svc.UID, NilSelector)
      cachedName == Lookup(sc.svcUIDNameCache, svc.UID, "")
  IN cachedSelector = selector /\ cachedName = svc.Name
       /\ cachedNamespace = svc.Namespace

AddService(sc, svc) ==
  LET selector == AsSelectorPreValidated(svc.Selector)
  IN IF Empty(selector) THEN sc
     ELSE [sc EXCEPT
             !.svcUIDPodsCache = MapSet(@, svc.UID, {}),
             !.svcUIDNamespaceCache = MapSet(@, svc.UID, svc.Namespace),
             !.svcUIDSelectorCache = MapSet(@, svc.UID, selector),
             !.svcUIDNameCache = MapSet(@, svc.UID, svc.Name)]

\* ServiceCache.DeleteByKey: what it leaves and the pods it returns
ServiceCacheDeleteByKey(sc, key) ==
  [sc |-> [sc EXCEPT
             !.svcUIDPodsCache = MapDelete(@, key),
             !.svcUIDNamespaceCache = MapDelete(@, key),
             !.svcUIDSelectorCache = MapDelete(@, key),
             !.svcUIDNameCache = MapDelete(@, key)],
   pods |-> Lookup(sc.svcUIDPodsCache, key, {})]

\* ------------------------------------------------------------- PodCache
\* A nil []metav1.OwnerReference is the empty sequence, which is also what a
\* lookup of a missing key gives.
NewPodCache ==
  [namespacePodUIDCache |-> <<>>, podUIDNamespaceCache |-> <<>>,
   podUIDLabelCache |-> <<>>, podUIDORCache |-> <<>>]

\* PodCache.IsCached
PodCacheIsCached(pc, pod) ==
  LET labelSet == pod.Labels
      cachedLabelSet == Lookup(pc.podUIDLabelCache, pod.UID, EmptyMap)
      cachedNamespace == Lookup(pc.podUIDNamespaceCache, pod.UID, "")
      cachedOR == Lookup(pc.podUIDORCache, pod.UID, <<>>)
  IN cachedLabelSet = labelSet /\ cachedNamespace = pod.Namespace
       /\ cachedOR = pod.OwnerReferences

AddPod(pc, pod) ==
  [pc EXCEPT
     !.namespacePodUIDCache =
       MapSet(@, pod.Namespace, Lookup(@, pod.Namespace, {}) \cup {pod.UID}),
     !.podUIDNamespaceCache = MapSet(@, pod.UID, pod.Namespace),
     !.podUIDLabelCache = MapSet(@, pod.UID, pod.Labels),
     !.podUIDORCache = MapSet(@, pod.UID, pod.OwnerReferences)]

\* PodCache.DeleteByKey: podUIDORCache is left alone
PodCacheDeleteByKey(pc, key) ==
  LET namespace == Lookup(pc.podUIDNamespaceCache, key, "")
  IN [pc EXCEPT
        !.namespacePodUIDCache =
          IF namespace \in DOMAIN @ THEN MapSet(@, namespace, @[namespace] \ {key})
          ELSE @,
        !.podUIDNamespaceCache = MapDelete(@, key),
        !.podUIDLabelCache = MapDelete(@, key)]

GetLabels(pc, key) == Lookup(pc.podUIDLabelCache, key, EmptyMap)

GetOwnerReferences(pc, key) == Lookup(pc.podUIDORCache, key, <<>>)

\* The pods of the namespace, as a set
GetPodsInNamespace(pc, namespace) == Lookup(pc.namespacePodUIDCache, namespace, {})

\* PodCache.GetMatchingServices: the service cache as it leaves it (the pod is
\* put in the pod set of each matching service) and the names, as a set.
GetMatchingServices(pc, podUID, sc) ==
  IF podUID \in DOMAIN pc.podUIDLabelCache
  THEN
    LET matching ==
          {svcUID \in DOMAIN sc.svcUIDSelectorCache :
             /\ Matches(sc.svcUIDSelectorCache[svcUID], pc.podUIDLabelCache[podUID])
             /\ Lookup(sc.svcUIDNamespaceCache, svcUID, "")
                  = Lookup(pc.podUIDNamespaceCache, podUID, "")}
    IN [sc |-> [sc EXCEPT
                  !.svcUIDPodsCache =
                    [svcUID \in (DOMAIN @) \cup matching |->
                       IF svcUID \in matching
                       THEN Lookup(@, svcUID, {}) \cup {podUID}
                       ELSE @[svcUID]]],
        services |-> {Lookup(sc.svcUIDNameCache, svcUID, "") : svcUID \in matching}]
  ELSE [sc |-> sc, services |-> {}]

\* ------------------------------------------------------------- PodServiceCache
NewPodServiceCache ==
  [svcUIDNamespaceCache |-> <<>>, svcUIDNameCache |-> <<>>,
   svcUIDSelectorCache |-> <<>>, podUIDLabelCache |-> <<>>,
   podUIDNamespaceCache |-> <<>>, podSvcUIDCache |-> <<>>,
   svcPodUIDCache |-> <<>>]

\* The loop over psc.podUIDLabelCache: each matching pod is joined to the
\* service in both directions; nothing is removed.
refreshCacheByService(psc, svc) ==
  IF svc.UID \in DOMAIN psc.svcUIDSelectorCache
  THEN
    LET selector == psc.svcUIDSelectorCache[svc.UID]
        pods == {podUID \in DOMAIN psc.podUIDLabelCache :
                   /\ Matches(selector, psc.podUIDLabelCache[podUID])
                   /\ Lookup(psc.podUIDNamespaceCache, podUID, "") = svc.Namespace}
    IN [psc EXCEPT
          !.podSvcUIDCache =
            [podUID \in (DOMAIN psc.podSvcUIDCache) \cup pods |->
               IF podUID \in pods
               THEN Lookup(psc.podSvcUIDCache, podUID, {}) \cup {svc.UID}
               ELSE psc.podSvcUIDCache[podUID]],
          !.svcPodUIDCache =
            IF pods = {} THEN psc.svcPodUIDCache
            ELSE MapSet(psc.svcPodUIDCache, svc.UID,
                        Lookup(psc.svcPodUIDCache, svc.UID, {}) \cup pods)]
  ELSE psc

\* refreshCacheByPod that leaves a pod that has services already as it is
refreshCacheByPodSkipJoined(psc, pod) ==
  IF pod.UID \in DOMAIN psc.podUIDLabelCache
       /\ Lookup(psc.podSvcUIDCache, pod.UID, {}) = {}
  THEN
    LET labelSet == psc.podUIDLabelCache[pod.UID]
        services == {svcUID \in DOMAIN psc.svcUIDSelectorCache :
                       /\ Matches(psc.svcUIDSelectorCache[svcUID], labelSet)
                       /\ Lookup(psc.svcUIDNamespaceCache, svcUID, "") = pod.Namespace}
    IN [psc EXCEPT
          !.podSvcUIDCache =
            IF services = {} THEN psc.podSvcUIDCache
            ELSE MapSet(psc.podSvcUIDCache, pod.UID,
                        Lookup(psc.podSvcUIDCache, pod.UID, {}) \cup services),
          !.svcPodUIDCache =
            [svcUID \in (DOMAIN psc.svcPodUIDCache) \cup services |->
               IF svcUID \in services
               THEN Lookup(psc.svcPodUIDCache, svcUID, {}) \cup {pod.UID}
               ELSE psc.svcPodUIDCache[svcUID]]]
  ELSE psc

\* The loop over psc.svcUIDSelectorCache: each matching service is joined to
\* the pod in both directions; nothing is removed.
refreshCacheByPod(psc, pod) ==
  IF pod.UID \in DOMAIN psc.podUIDLabelCache
  THEN
    LET labelSet == psc.podUIDLabelCache[pod.UID]
        services == {svcUID \in DOMAIN psc.svcUIDSelectorCache :
                       /\ Matches(psc.svcUIDSelectorCache[svcUID], labelSet)
                       /\ Lookup(psc.svcUIDNamespaceCache, svcUID, "") = pod.Namespace}
    IN [psc EXCEPT
          !.podSvcUIDCache =
            IF services = {} THEN psc.podSvcUIDCache
            ELSE MapSet(psc.podSvcUIDCache, pod.UID,
                        Lookup(psc.podSvcUIDCache, pod.UID, {}) \cup services),
          !.svcPodUIDCache =
            [svcUID \in (DOMAIN psc.svcPodUIDCache) \cup services |->
               IF svcUID \in services
               THEN Lookup(psc.svcPodUIDCache, svcUID, {}) \cup {pod.UID}
               ELSE psc.svcPodUIDCache[svcUID]]]
  ELSE psc

\* SetService that does not store the name
SetServiceNoName(psc, svc) ==
  LET selector == AsSelectorPreValidated(svc.Selector)
      cachedNamespace == Lookup(psc.svcUIDNamespaceCache, svc.UID, "")
      cachedSelector == Lookup(psc.svcUIDSelectorCache, svc.UID, NilSelector)
      cachedName == Lookup(psc.svcUIDNameCache, svc.UID, "")
  IN IF Empty(selector) THEN psc
     ELSE IF cachedSelector = selector /\ cachedName = svc.Name
             /\ cachedNamespace = svc.Namespace
     THEN psc
     ELSE refreshCacheByService(
            [psc EXCEPT
               !.svcUIDNamespaceCache = MapSet(@, svc.UID, svc.Namespace),
               !.svcUIDSelectorCache = MapSet(@, svc.UID, selector)],
            svc)

SetService(psc, svc) ==
  LET selector == AsSelectorPreValidated(svc.Selector)
      cachedNamespace == Lookup(psc.svcUIDNamespaceCache, svc.UID, "")
      cachedSelector == Lookup(psc.svcUIDSelectorCache, svc.UID, NilSelector)
      cachedName == Lookup(psc.svcUIDNameCache, svc.UID, "")
  IN IF Empty(selector) THEN psc
     ELSE IF cachedSelector = selector /\ cachedName = svc.Name
             /\ cachedNamespace = svc.Namespace
     THEN psc
     ELSE refreshCacheByService(
            [psc EXCEPT
               !.svcUIDNamespaceCache = MapSet(@, svc.UID, svc.Namespace),
               !.svcUIDSelectorCache = MapSet(@, svc.UID, selector),
               !.svcUIDNameCache = MapSet(@, svc.UID, svc.Name)],
            svc)

\* DeleteServiceFromCache without the loop over the service's pods
DeleteServiceFromCacheOneWay(psc, svcUID) ==
  [psc EXCEPT
     !.svcUIDNamespaceCache = MapDelete(@, svcUID),
     !.svcUIDSelectorCache = MapDelete(@, svcUID),
     !.svcUIDNameCache = MapDelete(@, svcUID),
     !.svcPodUIDCache = MapDelete(@, svcUID)]

DeleteServiceFromCache(psc, svcUID) ==
  LET podsSet == Lookup(psc.svcPodUIDCache, svcUID, {})
  IN [psc EXCEPT
        !.svcUIDNamespaceCache = MapDelete(@, svcUID),
        !.svcUIDSelectorCache = MapDelete(@, svcUID),
        !.svcUIDNameCache = MapDelete(@, svcUID),
        !.podSvcUIDCache =
          [podUID \in DOMAIN psc.podSvcUIDCache |->
             IF podUID \in podsSet THEN psc.podSvcUIDCache[podUID] \ {svcUID}
             ELSE psc.podSvcUIDCache[podUID]],
        !.svcPodUIDCache = MapDelete(@, svcUID)]

\* SetPod without the refresh of the pod's relations
SetPodNoRefresh(psc, pod) ==
  [psc EXCEPT
     !.podUIDNamespaceCache = MapSet(@, pod.UID, pod.Namespace),
     !.podUIDLabelCache = MapSet(@, pod.UID, pod.Labels)]

SetPod(psc, pod) ==
  LET labelSet == pod.Labels
      cachedLabelSet == Lookup(psc.podUIDLabelCache, pod.UID, EmptyMap)
      cachedNamespace == Lookup(psc.podUIDNamespaceCache, pod.UID, "")
  IN IF cachedLabelSet = labelSet /\ cachedNamespace = pod.Namespace
     THEN psc
     ELSE refreshCacheByPod(
            [psc EXCEPT
               !.podUIDNamespaceCache = MapSet(@, pod.UID, pod.Namespace),
               !.podUIDLabelCache = MapSet(@, pod.UID, labelSet)],
            pod)

\* DeletePodFromCache without the loop over the pod's services
DeletePodFromCacheOneWay(psc, podUID) ==
  [psc EXCEPT
     !.podUIDNamespaceCache = MapDelete(@, podUID),
     !.podUIDLabelCache = MapDelete(@, podUID),
     !.podSvcUIDCache = MapDelete(@, podUID)]

DeletePodFromCache(psc, podUID) ==
  LET servicesSet == Lookup(psc.podSvcUIDCache, podUID, {})
  IN [psc EXCEPT
        !.podUIDNamespaceCache = MapDelete(@, podUID),
        !.podUIDLabelCache = MapDelete(@, podUID),
        !.svcPodUIDCache =
          [svcUID \in DOMAIN psc.svcPodUIDCache |->
             IF svcUID \in servicesSet THEN psc.svcPodUIDCache[svcUID] \ {podUID}
             ELSE psc.svcPodUIDCache[svcUID]],
        !.podSvcUIDCache = MapDelete(@, podUID)]

\* The pods of the service, as a set: the callers treat each pod on its own.
GetPodUIDsForServiceUID(psc, svcUID) == Lookup(psc.svcPodUIDCache, svcUID, {})

GetPodUIDsForService(psc, svc) == GetPodUIDsForServiceUID(psc, svc.UID)

\* ------------------------------------------------------------- resolution
\* Go's string order on the names that occur
Rank(name) == CHOOSE i \in 1..Len(NameOrder) : NameOrder[i] = name
StrLess(a, b) == Rank(a) < Rank(b)

\* One order in which a range over a Go map (here a set of keys) may go
RECURSIVE RangeOrder(_)
RangeOrder(S) ==
  IF S = {} THEN <<>>
  ELSE LET x == CHOOSE y \in S : TRUE IN <<x>> \o RangeOrder(S \ {x})

\* Every order in which a range over the set may go
RangeOrders(S) ==
  {iter \in [1..Cardinality(S) -> S] :
     \A i, j \in 1..Cardinality(S) : i # j => iter[i] # iter[j]}

RECURSIVE Insert(_, _)
Insert(sorted, x) ==
  IF sorted = <<>> THEN <<x>>
  ELSE IF StrLess(x, Head(sorted)) THEN <<x>> \o sorted
  ELSE <<Head(sorted)>> \o Insert(Tail(sorted), x)

\* The names left in the order of the range
SortStringsUnsorted(services) == services

\* sort.Strings
RECURSIVE SortStrings(_)
SortStrings(services) ==
  IF services = <<>> THEN <<>>
  ELSE Insert(SortStrings(Tail(services)), Head(services))

\* The loop of getServiceNamesForPodUID, ranging over the pod's services in
\* the order iter: the cached name of each, "" for a service without one.
appendServiceNames(psc, iter) ==
  [i \in 1..Len(iter) |-> Lookup(psc.svcUIDNameCache, iter[i], "")]

getServiceNamesForPodUID(psc, podUID) ==
  appendServiceNames(psc, RangeOrder(Lookup(psc.podSvcUIDCache, podUID, {})))

getServiceNamesForPod(psc, pod) ==
  appendServiceNames(psc, RangeOrder(Lookup(psc.podSvcUIDCache, pod.UID, {})))

\* The tail of GetServiceNameForPod and GetServiceNameForPodUID: the error when
\* there is no name, else the first of the sorted names.
firstSortedService(services) ==
  IF Len(services) = 0 THEN [service |-> "", err |-> TRUE]
  ELSE [service |-> SortStrings(services)[1], err |-> FALSE]

GetServiceNameForPod(psc, pod) == firstSortedService(getServiceNamesForPod(psc, pod))

GetServiceNameForPodUID(psc, podUID) ==
  firstSortedService(getServiceNamesForPodUID(psc, podUID))

\* ------------------------------------------------------------- derivation
\* The samples and the dimension properties of a resource are functions of the
\* resource's fields.
datapointsForPod(pod) ==
  <<[Metric |-> "kubernetes.pod_phase", Value |-> 1,
     Dimensions |-> [kubernetes_pod_uid |-> pod.UID,
                     kubernetes_namespace |-> pod.Namespace]]>>

dimPropsForPod(pod) ==
  [Dimension |-> [Name |-> "kubernetes_pod_uid", Value |-> pod.UID],
   Properties |-> pod.Labels,
   Tags |-> <<>>]

datapointsForNode(node) ==
  <<[Metric |-> "kubernetes.node_ready", Value |-> IF node.Ready THEN 1 ELSE 0,
     Dimensions |-> [kubernetes_node_uid |-> node.UID]]>>

dimPropsForNode(node) ==
  [Dimension |-> [Name |-> "kubernetes_node_uid", Value |-> node.UID],
   Properties |-> <<>>,
   Tags |-> <<>>]

\* ------------------------------------------------------------- DatapointCache
Nil == <<"nil">>

NewDatapointCache ==
  [dpCache |-> <<>>, dimPropCache |-> <<>>, uidKindCache |-> <<>>,
   podServiceCache |-> NewPodServiceCache, panicked |-> FALSE]

\* keyForObject that takes the zero UID for the key of an object without one
keyForObjectZeroUID(obj) ==
  IF "UID" \in DOMAIN obj THEN [key |-> obj.UID, err |-> FALSE]
  ELSE [key |-> <<"", 0>>, err |-> FALSE]

\* The API types embed ObjectMeta, so theirs is never nil: the error is for
\* the objects that are no ObjectMetaAccessor.  The key is then the zero UID.
keyForObject(obj) ==
  IF "UID" \in DOMAIN obj THEN [key |-> obj.UID, err |-> FALSE]
  ELSE [key |-> <<"", 0>>, err |-> TRUE]

\* The loop over the pods, each on its own.  A pod without a record in
\* dimPropCache makes the handler dereference nil: the pods with a record are
\* updated and the fault is noted.
updateServicePropForPods(dc, podUIDs) ==
  [dc EXCEPT
     !.dimPropCache =
       [k \in DOMAIN dc.dimPropCache |->
          IF k \in podUIDs
          THEN LET r == GetServiceNameForPodUID(dc.podServiceCache, k)
               IN IF r.err
                  THEN [dc.dimPropCache[k] EXCEPT
                          !.Properties = MapDelete(@, "service")]
                  ELSE [dc.dimPropCache[k] EXCEPT
                          !.Properties = MapSet(@, "service", r.service)]
          ELSE dc.dimPropCache[k]],
     !.panicked = @ \/ (podUIDs \ DOMAIN dc.dimPropCache # {})]

\* handleAddPod resolving the service before SetPod has joined the pod
handleAddPodResolveFirst(dc, pod) ==
  LET r == GetServiceNameForPod(dc.podServiceCache, pod)
      dimProps == dimPropsForPod(pod)
  IN [dc |-> [dc EXCEPT !.podServiceCache = SetPod(dc.podServiceCache, pod)],
      dps |-> datapointsForPod(pod),
      dimProps |-> IF r.err THEN dimProps
                   ELSE [dimProps EXCEPT
                           !.Properties = MapSet(@, "service", r.service)]]

handleAddPod(dc, pod) ==
  LET psc == SetPod(dc.podServiceCache, pod)
      r == GetServiceNameForPod(psc, pod)
      dimProps == dimPropsForPod(pod)
  IN [dc |-> [dc EXCEPT !.podServiceCache = psc],
      dps |-> datapointsForPod(pod),
      dimProps |-> IF r.err THEN dimProps
                   ELSE [dimProps EXCEPT
                           !.Properties = MapSet(@, "service", r.service)]]

\* handleDeletePod that leaves the pod in the join index
handleDeletePodKeepJoined(dc, key) ==
  dc

handleDeletePod(dc, key) ==
  [dc EXCEPT !.podServiceCache = DeletePodFromCache(@, key)]

\* handleAddService without the update of the pods' properties
handleAddServiceNoUpdate(dc, svc) ==
  [dc EXCEPT !.podServiceCache = SetService(dc.podServiceCache, svc)]

handleAddService(dc, svc) ==
  LET psc == SetService(dc.podServiceCache, svc)
      podUIDs == GetPodUIDsForService(psc, svc)
  IN updateServicePropForPods([dc EXCEPT !.podServiceCache = psc], podUIDs)

\* handleDeleteService without the update of the pods' properties
handleDeleteServiceNoUpdate(dc, key) ==
  [dc EXCEPT !.podServiceCache = DeleteServiceFromCache(dc.podServiceCache, key)]

handleDeleteService(dc, key) ==
  LET podUIDs == GetPodUIDsForServiceUID(dc.podServiceCache, key)
      psc == DeleteServiceFromCache(dc.podServiceCache, key)
  IN updateServicePropForPods([dc EXCEPT !.podServiceCache = psc], podUIDs)

\* The links of addDimPropsToCache: the list is empty, its one entry is
\* commented out.
links == <<>>

\* The entry that is commented out
ReplicaSetLink ==
  [SourceKind |-> "ReplicaSet", SourceProperty |-> "deployment",
   SourceJoinKey |-> "name", TargetKind |-> "Pod",
   TargetProperty |-> "deployment", TargetJoinKey |-> "replicaSet"]

\* The first loop of a link, for a record of the target kind, over the cached
\* keys in the order iter of the range: each source record whose join key is
\* not "" and is the record's gives the record its source property.
RECURSIVE pullFromSources(_, _, _, _)
pullFromSources(dc, dimProps, link, iter) ==
  IF iter = <<>> THEN dimProps
  ELSE
    LET cachedKey == Head(iter)
        cachedProps == dc.dimPropCache[cachedKey].Properties
    IN pullFromSources(
         dc,
         IF /\ Lookup(dc.uidKindCache, cachedKey, "") = link.SourceKind
            /\ Lookup(cachedProps, link.SourceJoinKey, "") # ""
            /\ Lookup(cachedProps, link.SourceJoinKey, "")
                 = Lookup(dimProps.Properties, link.TargetJoinKey, "")
         THEN [dimProps EXCEPT
                 !.Properties = MapSet(@, link.TargetProperty,
                                       Lookup(cachedProps, link.SourceProperty, ""))]
         ELSE dimProps,
         link, Tail(iter))

\* pushToTargets that does not ask whether the join key is ""
pushToTargetsEmptyJoinKey(dc, dimProps, link) ==
  [dc EXCEPT
     !.dimPropCache =
       [cachedKey \in DOMAIN dc.dimPropCache |->
          LET cachedProps == dc.dimPropCache[cachedKey].Properties
          IN IF /\ Lookup(dc.uidKindCache, cachedKey, "") = link.TargetKind
                /\ Lookup(cachedProps, link.TargetJoinKey, "")
                     = Lookup(dimProps.Properties, link.SourceJoinKey, "")
             THEN [dc.dimPropCache[cachedKey] EXCEPT
                     !.Properties =
                       MapSet(@, link.TargetProperty,
                              Lookup(dimProps.Properties, link.SourceProperty, ""))]
             ELSE dc.dimPropCache[cachedKey]]]

\* The second loop of a link, for a record of the source kind: each cached
\* target record whose join key is not "" and is the record's is given the
\* record's source property, in place.
pushToTargets(dc, dimProps, link) ==
  [dc EXCEPT
     !.dimPropCache =
       [cachedKey \in DOMAIN dc.dimPropCache |->
          LET cachedProps == dc.dimPropCache[cachedKey].Properties
          IN IF /\ Lookup(dc.uidKindCache, cachedKey, "") = link.TargetKind
                /\ Lookup(cachedProps, link.TargetJoinKey, "") # ""
                /\ Lookup(cachedProps, link.TargetJoinKey, "")
                     = Lookup(dimProps.Properties, link.SourceJoinKey, "")
             THEN [dc.dimPropCache[cachedKey] EXCEPT
                     !.Properties =
                       MapSet(@, link.TargetProperty,
                              Lookup(dimProps.Properties, link.SourceProperty, ""))]
             ELSE dc.dimPropCache[cachedKey]]]

\* The loop over the links: what it leaves of the cache and of the record
RECURSIVE applyLinks(_, _, _, _, _)
applyLinks(dc, key, dimProps, ls, iter) ==
  IF ls = <<>> THEN [dc |-> dc, dimProps |-> dimProps]
  ELSE
    LET link == Head(ls)
        pulled == IF Lookup(dc.uidKindCache, key, "") = link.TargetKind
                  THEN pullFromSources(dc, dimProps, link, iter)
                  ELSE dimProps
        pushed == IF Lookup(dc.uidKindCache, key, "") = link.SourceKind
                  THEN pushToTargets(dc, pulled, link)
                  ELSE dc
    IN applyLinks(pushed, key, pulled, Tail(ls), iter)

\* addDimPropsToCacheWith that stores the record in a map of its own
addDimPropsToCacheWithFreshMap(dc, key, dimProps, ls, iter) ==
  LET r == applyLinks(dc, key, dimProps, ls, iter)
  IN [r.dc EXCEPT !.dimPropCache = MapSet(<<>>, key, r.dimProps)]

\* addDimPropsToCache with the list ls for its links
addDimPropsToCacheWith(dc, key, dimProps, ls, iter) ==
  LET r == applyLinks(dc, key, dimProps, ls, iter)
  IN [r.dc EXCEPT !.dimPropCache = MapSet(@, key, r.dimProps)]

addDimPropsToCache(dc, key, dimProps) ==
  addDimPropsToCacheWith(dc, key, dimProps, links,
                         RangeOrder(DOMAIN dc.dimPropCache))

\* DeleteByKey that reads the record of the key before the deletes
DeleteByKeyReadRecord(dc, key) ==
  [dc EXCEPT
     !.uidKindCache = MapDelete(@, key),
     !.dpCache = MapDelete(@, key),
     !.dimPropCache = MapDelete(@, key),
     !.panicked = @ \/ key \notin DOMAIN dc.dimPropCache]

DeleteByKey(dc, key) ==
  LET kind == Lookup(dc.uidKindCache, key, "")
      dc1 == IF kind = "Pod" THEN handleDeletePod(dc, key)
             ELSE IF kind = "Service" THEN handleDeleteService(dc, key)
             ELSE dc
  IN [dc1 EXCEPT
        !.uidKindCache = MapDelete(@, key),
        !.dpCache = MapDelete(@, key),
        !.dimPropCache = MapDelete(@, key)]

HandleDelete(dc, oldObj) ==
  LET k == keyForObject(oldObj)
  IN IF k.err THEN [dc |-> dc, ret |-> Nil]
     ELSE [dc |-> DeleteByKey(dc, k.key), ret |-> k.key]

\* The type switch: what the case of the object's type leaves behind.  dps and
\* dimProps are one-element or empty sequences (empty: nil).
handleAddSwitch(dc, newObj) ==
  IF newObj.kind = "Pod"
  THEN LET r == handleAddPod(dc, newObj)
       IN [dc |-> r.dc, dps |-> <<r.dps>>, dimProps |-> <<r.dimProps>>,
           kind |-> "Pod"]
  ELSE IF newObj.kind = "Node"
  THEN [dc |-> dc, dps |-> <<datapointsForNode(newObj)>>,
        dimProps |-> <<dimPropsForNode(newObj)>>, kind |-> "Node"]
  ELSE IF newObj.kind = "Service"
  THEN [dc |-> handleAddService(dc, newObj), dps |-> <<>>, dimProps |-> <<>>,
        kind |-> "Service"]
  ELSE [dc |-> dc, dps |-> <<>>, dimProps |-> <<>>, kind |-> ""]

\* HandleAdd whose default case does not return
HandleAddNoDefaultReturn(dc, newObj) ==
  LET s == handleAddSwitch(dc, newObj)
      k == keyForObject(newObj)
  IN IF k.err THEN [dc |-> s.dc, ret |-> Nil]
     ELSE [dc |-> s.dc, ret |-> k.key]

HandleAdd(dc, newObj) ==
  LET s == handleAddSwitch(dc, newObj)
      k == keyForObject(newObj)
      dc1 == IF s.dps # <<>>
             THEN [s.dc EXCEPT !.dpCache = MapSet(@, k.key, s.dps[1])]
             ELSE s.dc
      dc2 == IF s.kind # ""
             THEN [dc1 EXCEPT !.uidKindCache = MapSet(@, k.key, s.kind)]
             ELSE dc1
      dc3 == IF s.dimProps # <<>>
             THEN addDimPropsToCache(dc2, k.key, s.dimProps[1])
             ELSE dc2
  IN IF s.kind = "" THEN [dc |-> dc, ret |-> Nil]
     ELSE IF k.err THEN [dc |-> s.dc, ret |-> Nil]
     ELSE [dc |-> dc3, ret |-> k.key]

\* DimProperties.Copy and the reads
Copy(dp) ==
  [Dimension |-> [Name |-> dp.Dimension.Name, Value |-> dp.Dimension.Value],
   Properties |-> [k \in DOMAIN dp.Properties |-> dp.Properties[k]],
   Tags |-> [k \in DOMAIN dp.Tags |-> dp.Tags[k]]]

AllDimProperties(dc) == {Copy(dc.dimPropCache[k]) : k \in DOMAIN dc.dimPropCache}

AllDatapoints(dc) ==
  UNION {{dc.dpCache[k][i] : i \in 1..Len(dc.dpCache[k])} : k \in DOMAIN dc.dpCache}

\* ------------------------------------------------------------- pointers
\* dimPropCache holds *DimProperties and dpCache holds []*Datapoint: a record
\* and a sample are structs behind a pointer, and each of their maps is an
\* object of its own.  A store through a pointer changes the object for every
\* holder of a pointer to it.  An address names who made the object ("dc": the
\* cache; else the call that allocated it), the key and the index of the
\* struct (0 for a DimProperties), and the field ("" for the struct itself).
Ref(owner, key, index, field) ==
  [owner |-> owner, key |-> key, index |-> index, field |-> field]

\* The objects the cache holds
heapOf(dc) ==
  LET recs == {Ref("dc", k, 0, f) :
                 k \in DOMAIN dc.dimPropCache, f \in {"", "Properties", "Tags"}}
      dps == UNION {{Ref("dc", k, i, f) :
                       i \in 1..Len(dc.dpCache[k]), f \in {"", "Dimensions"}} :
                    k \in DOMAIN dc.dpCache}
  IN [a \in recs \cup dps |->
        IF a.index = 0
        THEN IF a.field = ""
             THEN [Dimension |-> dc.dimPropCache[a.key].Dimension,
                   Properties |-> Ref("dc", a.key, 0, "Properties"),
                   Tags |-> Ref("dc", a.key, 0, "Tags")]
             ELSE dc.dimPropCache[a.key][a.field]
        ELSE IF a.field = ""
             THEN [Metric |-> dc.dpCache[a.key][a.index].Metric,
                   Value |-> dc.dpCache[a.key][a.index].Value,
                   Dimensions |-> Ref("dc", a.key, a.index, "Dimensions")]
             ELSE dc.dpCache[a.key][a.index].Dimensions]

\* What a *DimProperties and a *Datapoint show to the one who follows them
DimPropertiesValue(heap, dp) ==
  [Dimension |-> heap[dp].Dimension,
   Properties |-> heap[heap[dp].Properties],
   Tags |-> heap[heap[dp].Tags]]

DatapointValue(heap, dp) ==
  [Metric |-> heap[dp].Metric, Value |-> heap[dp].Value,
   Dimensions |-> heap[heap[dp].Dimensions]]

\* The cache as its pointers show it
cacheOf(heap, dc) ==
  [dc EXCEPT
     !.dimPropCache =
       [k \in DOMAIN dc.dimPropCache |->
          DimPropertiesValue(heap, Ref("dc", k, 0, ""))],
     !.dpCache =
       [k \in DOMAIN dc.dpCache |->
          [i \in 1..Len(dc.dpCache[k]) |->
             DatapointValue(heap, Ref("dc", k, i, ""))]]]

\* make and &T{}: new objects beside the ones there are
Alloc(heap, made) ==
  [a \in (DOMAIN heap) \cup (DOMAIN made) |->
     IF a \in DOMAIN made THEN made[a] ELSE heap[a]]

\* Copy that hands out the maps of the record it copies
CopyAtSharedMaps(heap, dp, cloned) ==
  (cloned :> [Dimension |-> [Name |-> heap[dp].Dimension.Name,
                             Value |-> heap[dp].Dimension.Value],
              Properties |-> heap[dp].Properties,
              Tags |-> heap[dp].Tags])
  @@ ([cloned EXCEPT !.field = "Properties"] :> <<>>)
  @@ ([cloned EXCEPT !.field = "Tags"] :> <<>>)

\* DimProperties.Copy of the record at dp: the objects it makes, the new
\* struct at the address cloned and its two maps.
CopyAt(heap, dp, cloned) ==
  LET clonedProperties == [cloned EXCEPT !.field = "Properties"]
      clonedTags == [cloned EXCEPT !.field = "Tags"]
  IN (cloned :> [Dimension |-> [Name |-> heap[dp].Dimension.Name,
                                Value |-> heap[dp].Dimension.Value],
                 Properties |-> clonedProperties,
                 Tags |-> clonedTags])
     @@ (clonedProperties :>
           [k \in DOMAIN heap[heap[dp].Properties] |-> heap[heap[dp].Properties][k]])
     @@ (clonedTags :>
           [k \in DOMAIN heap[heap[dp].Tags] |-> heap[heap[dp].Tags][k]])

\* AllDimProperties, with the pointers it returns and the heap it leaves
AllDimPropertiesAt(heap, dc, call) ==
  LET made == [a \in {Ref(call, k, 0, f) :
                        k \in DOMAIN dc.dimPropCache,
                        f \in {"", "Properties", "Tags"}} |->
                 CopyAt(heap, Ref("dc", a.key, 0, ""), Ref(call, a.key, 0, ""))[a]]
  IN [heap |-> Alloc(heap, made),
      dimProps |-> {Ref(call, k, 0, "") : k \in DOMAIN dc.dimPropCache}]

\* AllDatapoints, with the pointers it returns and the heap it leaves:
\* dp := *dc.dpCache[k][i] copies the struct, the reference to its map included
AllDatapointsAt(heap, dc, call) ==
  LET dps == UNION {{Ref(call, k, i, "") : i \in 1..Len(dc.dpCache[k])} :
                    k \in DOMAIN dc.dpCache}
      made == [a \in dps |-> heap[Ref("dc", a.key, a.index, "")]]
  IN [heap |-> Alloc(heap, made), dps |-> dps]

\* The stores a holder of a *DimProperties can make through it: to a field of
\* the struct, and to an entry of either map
StoresDimProperties(heap, dp) ==
  {[heap EXCEPT ![dp].Dimension.Name = "mutated"]}
  \cup {[heap EXCEPT ![dp].Dimension.Value = v] : v \in NodeUIDs}
  \cup {[heap EXCEPT ![heap[dp].Properties] = MapSet(@, k, "mutated")] :
          k \in {"service", "app", "extra"}}
  \cup {[heap EXCEPT ![heap[dp].Properties] = MapDelete(@, k)] :
          k \in DOMAIN heap[heap[dp].Properties]}
  \cup {[heap EXCEPT ![heap[dp].Tags] = MapSet(@, "extra", TRUE)]}

\* The stores a holder of a *Datapoint can make through it
StoresDatapoint(heap, dp) ==
  {[heap EXCEPT ![dp].Metric = "mutated"]}
  \cup {[heap EXCEPT ![dp].Value = 1 - @]}
  \cup {[heap EXCEPT ![heap[dp].Dimensions] = MapSet(@, k, "mutated")] :
          k \in {"kubernetes_namespace", "extra"}}
  \cup {[heap EXCEPT ![heap[dp].Dimensions] = MapDelete(@, k)] :
          k \in DOMAIN heap[heap[dp].Dimensions]}

\* ------------------------------------------------------------- the cache as state
DC ==
  [dpCache |-> dpCache, dimPropCache |-> dimPropCache,
   uidKindCache |-> uidKindCache, podServiceCache |-> podServiceCache,
   panicked |-> panicked]

Init ==
  /\ dpCache = NewDatapointCache.dpCache
  /\ dimPropCache = NewDatapointCache.dimPropCache
  /\ uidKindCache = NewDatapointCache.uidKindCache
  /\ podServiceCache = NewDatapointCache.podServiceCache
  /\ panicked = NewDatapointCache.panicked
  /\ mu = "unlocked"
  /\ writer = [pc |-> "idle"]
  /\ reader = [pc |-> "idle"]
  /\ snapshot = [call |-> "none"]
  /\ podCache = NewPodCache
  /\ serviceCache = NewServiceCache

\* ------------------------------------------------------------- the calls
DoHandleAdd ==
  \E newObj \in Objects :
    \E dc \in {HandleAdd(DC, newObj).dc} :
       /\ dpCache' = dc.dpCache
       /\ dimPropCache' = dc.dimPropCache
       /\ uidKindCache' = dc.uidKindCache
       /\ podServiceCache' = dc.podServiceCache
       /\ panicked' = dc.panicked
       /\ UNCHANGED <<goroutines, caches>>

DoHandleDelete ==
  \E oldObj \in DeletedObjects \cup ConfigMaps \cup Statuses :
    \E dc \in {HandleDelete(DC, oldObj).dc} :
       /\ dpCache' = dc.dpCache
       /\ dimPropCache' = dc.dimPropCache
       /\ uidKindCache' = dc.uidKindCache
       /\ podServiceCache' = dc.podServiceCache
       /\ panicked' = dc.panicked
       /\ UNCHANGED <<goroutines, caches>>

DoDeleteByKey ==
  \E key \in UIDs :
    \E dc \in {DeleteByKey(DC, key)} :
       /\ dpCache' = dc.dpCache
       /\ dimPropCache' = dc.dimPropCache
       /\ uidKindCache' = dc.uidKindCache
       /\ podServiceCache' = dc.podServiceCache
       /\ panicked' = dc.panicked
       /\ UNCHANGED <<goroutines, caches>>

Next == DoHandleAdd \/ DoHandleDelete \/ DoDeleteByKey

Spec == Init /\ [][Next]_vars

\* ------------------------------------------------------------- writers and readers
\* The caller of HandleAdd and HandleDelete holds the lock (MUST HOLD LOCK);
\* AllDatapoints and AllDimProperties take it themselves.  Here the handlers go
\* step by step: the join index first, then the service property of one pod
\* after the other, then the stores of the key.

\* The writes the goroutine makes: two matching pods, their service under two
\* names, and the deletes.
WriterCalls ==
  {[op |-> "HandleAdd", obj |-> obj] :
     obj \in {o \in Pods \cup Services :
                /\ o.UID \in {<<"pod", 1>>, <<"pod", 2>>, <<"svc", 1>>}
                /\ o.Namespace = "ns"
                /\ (o.kind = "Pod" => o.Labels = AppFoo)
                /\ (o.kind = "Service" => o.Selector = AppFoo)}}
  \cup
  {[op |-> "HandleDelete", obj |-> obj] :
     obj \in {o \in DeletedObjects : o.UID \in {<<"pod", 1>>, <<"svc", 1>>}}}

ReaderCalls == {"AllDatapoints", "AllDimProperties"}

\* The whole handler
WriteWhole(dc, call) ==
  IF call.op = "HandleAdd" THEN HandleAdd(dc, call.obj).dc
  ELSE HandleDelete(dc, call.obj).dc

\* What a read returns of a cache
ReadWhole(dc, call) ==
  IF call = "AllDatapoints" THEN AllDatapoints(dc) ELSE AllDimProperties(dc)

\* The caller takes the lock and calls the handler
WriterLock ==
  \E call \in WriterCalls :
    /\ mu = "unlocked"
    /\ writer.pc = "idle"
    /\ mu' = "writer"
    /\ writer' = [pc |-> "index", call |-> call, before |-> DC, todo |-> {}]
    /\ UNCHANGED <<caches, cache, reader, snapshot>>

\* The handler's first change: SetPod, SetService, DeletePodFromCache or
\* DeleteServiceFromCache, and the pods whose property is then to be resolved
WriterIndex ==
  /\ writer.pc = "index"
  /\ LET obj == writer.call.obj
         kind == Lookup(uidKindCache, obj.UID, "")
     IN \E r \in {
           IF writer.call.op = "HandleAdd"
           THEN IF obj.kind = "Pod"
                THEN [psc |-> SetPod(podServiceCache, obj), todo |-> {}]
                ELSE LET psc == SetService(podServiceCache, obj)
                     IN [psc |-> psc, todo |-> GetPodUIDsForService(psc, obj)]
           ELSE IF kind = "Pod"
                THEN [psc |-> DeletePodFromCache(podServiceCache, obj.UID),
                      todo |-> {}]
           ELSE IF kind = "Service"
                THEN [psc |-> DeleteServiceFromCache(podServiceCache, obj.UID),
                      todo |-> GetPodUIDsForServiceUID(podServiceCache, obj.UID)]
           ELSE [psc |-> podServiceCache, todo |-> {}]} :
          /\ podServiceCache' = r.psc
          /\ writer' = [writer EXCEPT !.pc = "props", !.todo = r.todo]
  /\ UNCHANGED <<caches, dpCache, dimPropCache, uidKindCache, panicked, mu, reader, snapshot>>

\* One round of the loop of updateServicePropForPods
WriterProp ==
  /\ writer.pc = "props"
  /\ \E podUID \in writer.todo :
       \E dc \in {updateServicePropForPods(DC, {podUID})} :
         /\ dimPropCache' = dc.dimPropCache
         /\ panicked' = dc.panicked
         /\ writer' = [writer EXCEPT !.todo = @ \ {podUID}]
  /\ UNCHANGED <<caches, dpCache, uidKindCache, podServiceCache, mu, reader, snapshot>>

\* The stores that end the handler: of the samples, the kind and the record
\* in HandleAdd, the three deletes in DeleteByKey
WriterStore ==
  /\ writer.pc = "props"
  /\ writer.todo = {}
  /\ LET obj == writer.call.obj
     IN \E dc \in {
           IF writer.call.op = "HandleAdd"
           THEN HandleAdd(DC, obj).dc
           ELSE [DC EXCEPT !.uidKindCache = MapDelete(@, obj.UID),
                           !.dpCache = MapDelete(@, obj.UID),
                           !.dimPropCache = MapDelete(@, obj.UID)]} :
          /\ dpCache' = dc.dpCache
          /\ dimPropCache' = dc.dimPropCache
          /\ uidKindCache' = dc.uidKindCache
          /\ podServiceCache' = dc.podServiceCache
          /\ panicked' = dc.panicked
  /\ writer' = [writer EXCEPT !.pc = "done"]
  /\ UNCHANGED <<caches, mu, reader, snapshot>>

\* The handler has returned: the caller releases the lock
WriterUnlock ==
  /\ writer.pc = "done"
  /\ mu' = "unlocked"
  /\ writer' = [pc |-> "idle"]
  /\ UNCHANGED <<caches, cache, reader, snapshot>>

\* A read that does not take the lock
ReaderLockNoMutex ==
  \E call \in ReaderCalls :
    /\ reader.pc = "idle"
    /\ reader' = [pc |-> "locked", call |-> call]
    /\ UNCHANGED <<caches, cache, mu, writer, snapshot>>

\* dc.Lock() of AllDatapoints and AllDimProperties
ReaderLock ==
  \E call \in ReaderCalls :
    /\ reader.pc = "idle"
    /\ mu = "unlocked"
    /\ mu' = "reader"
    /\ reader' = [pc |-> "locked", call |-> call]
    /\ UNCHANGED <<caches, cache, writer, snapshot>>

\* The copying loop.  Beside the result, the snapshot notes what the call
\* could have returned of the cache as the last whole write left it, and as
\* the write under way will leave it.
ReaderCopy ==
  /\ reader.pc = "locked"
  /\ snapshot' =
       [call |-> reader.call,
        result |-> ReadWhole(DC, reader.call),
        whole |->
          IF writer.pc = "idle" THEN {ReadWhole(DC, reader.call)}
          ELSE {ReadWhole(writer.before, reader.call),
                ReadWhole(WriteWhole(writer.before, writer.call), reader.call)}]
  /\ reader' = [reader EXCEPT !.pc = "copied"]
  /\ UNCHANGED <<caches, cache, mu, writer>>

\* The deferred dc.Unlock()
ReaderUnlock ==
  /\ reader.pc = "copied"
  /\ mu' = IF mu = "reader" THEN "unlocked" ELSE mu
  /\ reader' = [pc |-> "idle"]
  /\ UNCHANGED <<caches, cache, writer, snapshot>>

NextLocked ==
  \/ WriterLock \/ WriterIndex \/ WriterProp \/ WriterStore \/ WriterUnlock
  \/ ReaderLock \/ ReaderCopy \/ ReaderUnlock

SpecLocked == Init /\ [][NextLocked]_vars

\* ------------------------------------------------------------- the change-detection caches
\* A PodCache and a ServiceCache, called in any order.  The pods and services
\* they are given include the ones all of whose tracked fields are zero values.
CachePods ==
  [kind : {"Pod"}, UID : PodUIDs, Namespace : {"", "ns"}, Labels : LabelSets,
   OwnerReferences : {<<>>, <<"rs-1">>}]
CacheServices ==
  [kind : {"Service"}, UID : {<<"svc", 1>>}, Namespace : {"", "ns"},
   Name : ServiceNames, Selector : SelectorMaps]

DoAddPod ==
  \E pod \in CachePods :
    /\ podCache' = AddPod(podCache, pod)
    /\ UNCHANGED <<cache, goroutines, serviceCache>>

DoPodCacheDeleteByKey ==
  \E key \in PodUIDs :
    /\ podCache' = PodCacheDeleteByKey(podCache, key)
    /\ UNCHANGED <<cache, goroutines, serviceCache>>

DoAddService ==
  \E svc \in CacheServices :
    /\ serviceCache' = AddService(serviceCache, svc)
    /\ UNCHANGED <<cache, goroutines, podCache>>

DoServiceCacheDeleteByKey ==
  \E svc \in CacheServices :
    /\ serviceCache' = ServiceCacheDeleteByKey(serviceCache, svc.UID).sc
    /\ UNCHANGED <<cache, goroutines, podCache>>

DoGetMatchingServices ==
  \E podUID \in PodUIDs :
    /\ serviceCache' = GetMatchingServices(podCache, podUID, serviceCache).sc
    /\ UNCHANGED <<cache, goroutines, podCache>>

NextCaches ==
  \/ DoAddPod \/ DoPodCacheDeleteByKey \/ DoAddService
  \/ DoServiceCacheDeleteByKey \/ DoGetMatchingServices

SpecCaches == Init /\ [][NextCaches]_vars

\* ------------------------------------------------------------- the property links
\* The tail of HandleAdd (the store of the kind, then addDimPropsToCache) for
\* records of pods and replica sets, with the link of the replica sets in the
\* list, and DeleteByKey.  A record comes with or without its join key.
ReplicaSetUIDs == {<<"rs", 1>>, <<"rs", 2>>}

PropertySets(names, values) ==
  UNION {[present -> values] : present \in SUBSET names}

LinkRecords ==
  {[key |-> key, kind |-> "ReplicaSet",
    dimProps |-> [Dimension |-> [Name |-> "kubernetes_uid", Value |-> key],
                  Properties |-> props, Tags |-> <<>>]] :
     key \in ReplicaSetUIDs,
     props \in PropertySets({"name", "deployment"}, {"", "a"})
                \cup PropertySets({"name"}, {"b"})}
  \cup
  {[key |-> key, kind |-> "Pod",
    dimProps |-> [Dimension |-> [Name |-> "kubernetes_pod_uid", Value |-> key],
                  Properties |-> props, Tags |-> <<>>]] :
     key \in PodUIDs,
     props \in PropertySets({"replicaSet"}, {"", "a", "b"})}

\* The cache with the kind of the key stored, as addDimPropsToCache finds it
WithKind(dc, key, kind) == [dc EXCEPT !.uidKindCache = MapSet(@, key, kind)]

DoAddLinked ==
  \E rec \in LinkRecords :
    \E iter \in RangeOrders(DOMAIN dimPropCache) :
      \E dc \in {addDimPropsToCacheWith(WithKind(DC, rec.key, rec.kind), rec.key,
                                         rec.dimProps, <<ReplicaSetLink>>, iter)} :
        /\ dimPropCache' = dc.dimPropCache
        /\ uidKindCache' = dc.uidKindCache
        /\ UNCHANGED <<dpCache, podServiceCache, panicked, goroutines, caches>>

DoDeleteLinked ==
  \E key \in ReplicaSetUIDs \cup PodUIDs :
    \E dc \in {DeleteByKey(DC, key)} :
      /\ dimPropCache' = dc.dimPropCache
      /\ uidKindCache' = dc.uidKindCache
      /\ UNCHANGED <<dpCache, podServiceCache, panicked, goroutines, caches>>

NextLinks == DoAddLinked \/ DoDeleteLinked

SpecLinks == Init /\ [][NextLinks]_vars

\* ------------------------------------------------------------- vocabulary of the properties
ServicesOfPod(dc, podUID) == Lookup(dc.podServiceCache.podSvcUIDCache, podUID, {})
PodsOfService(dc, svcUID) == Lookup(dc.podServiceCache.svcPodUIDCache, svcUID, {})
CachedPods(dc) == {k \in DOMAIN dc.uidKindCache : dc.uidKindCache[k] = "Pod"}
CachedServices(dc) == {k \in DOMAIN dc.uidKindCache : dc.uidKindCache[k] = "Service"}
HasServiceProp(dc, podUID) ==
  podUID \in DOMAIN dc.dimPropCache
    /\ "service" \in DOMAIN dc.dimPropCache[podUID].Properties
ServiceProp(dc, podUID) == dc.dimPropCache[podUID].Properties["service"]
NamesOf(dc, svcUIDs) ==
  {Lookup(dc.podServiceCache.svcUIDNameCache, s, "") : s \in svcUIDs}
IsSmallest(name, names) == name \in names /\ \A n \in names : ~StrLess(n, name)
\* The service's stored selector matches the pod's stored labels, in one namespace
StoredMatch(dc, podUID, svcUID) ==
  LET psc == dc.podServiceCache
  IN /\ podUID \in DOMAIN psc.podUIDLabelCache
     /\ svcUID \in DOMAIN psc.svcUIDSelectorCache
     /\ Matches(psc.svcUIDSelectorCache[svcUID], psc.podUIDLabelCache[podUID])
     /\ Lookup(psc.podUIDNamespaceCache, podUID, "")
          = Lookup(psc.svcUIDNamespaceCache, svcUID, "")

\* ------------------------------------------------------------- C1
\* C1 (join symmetry): in every reachable state, for every pod key P and
\* service key S, S is in the pod-to-services set of P if and only if P is in
\* the service-to-pods set of S.
JoinSymmetry ==
  \A P \in PodUIDs, S \in SvcUIDs :
    S \in ServicesOfPod(DC, P) <=> P \in PodsOfService(DC, S)

\* A pod joined to a service in both directions, beside a pod that the delete
\* of its last service has left with a service set that is present and empty.
JoinSymmetryWitness ==
  \E P, Q \in PodUIDs, S \in SvcUIDs :
    /\ P # Q
    /\ S \in ServicesOfPod(DC, P) /\ P \in PodsOfService(DC, S)
    /\ Q \in DOMAIN podServiceCache.podSvcUIDCache
    /\ podServiceCache.podSvcUIDCache[Q] = {}

\* ------------------------------------------------------------- C2
\* C2 (join exactness), for the service a HandleAdd has just observed: once
\* the call returns, a cached pod is joined to that service if and only if the
\* selector just observed matches the pod's labels and the two namespaces are
\* the same.  (The labels and namespace stored for a pod are the ones last
\* observed for it.)
JoinExactness ==
  \A svc \in Services :
    LET dc == HandleAdd(DC, svc).dc
    IN \A P \in CachedPods(dc) :
         svc.UID \in ServicesOfPod(dc, P)
           <=> /\ svc.Selector # EmptyMap
               /\ Matches(AsSelectorPreValidated(svc.Selector),
                          dc.podServiceCache.podUIDLabelCache[P])
               /\ dc.podServiceCache.podUIDNamespaceCache[P] = svc.Namespace

\* ------------------------------------------------------------- C3
\* C3 (empty-selector exclusion): after HandleAdd of a service whose selector
\* is empty, the service is in no pod's service set, and no pod is in its pod
\* set, whatever selector an earlier version of it had.
EmptySelectorExclusion ==
  \A svc \in Services :
    svc.Selector = EmptyMap =>
      LET dc == HandleAdd(DC, svc).dc
      IN /\ \A P \in PodUIDs : svc.UID \notin ServicesOfPod(dc, P)
         /\ PodsOfService(dc, svc.UID) = {}

\* ------------------------------------------------------------- C4
\* C4 (namespace isolation): in every reachable state, a pod and a service
\* that are joined have the same recorded namespace.
NamespaceIsolation ==
  \A P \in PodUIDs, S \in SvcUIDs :
    S \in ServicesOfPod(DC, P) =>
      Lookup(podServiceCache.podUIDNamespaceCache, P, "")
        = Lookup(podServiceCache.svcUIDNamespaceCache, S, "")

\* ------------------------------------------------------------- C5
\* C5 (deterministic resolution): for every pod, in whatever order the range
\* over the pod's services goes, GetServiceNameForPod and
\* GetServiceNameForPodUID return the smallest, in string order, of the names
\* of the services joined to the pod, and the not-found error exactly when no
\* service is joined to it.
DeterministicResolution ==
  \A P \in PodUIDs :
    LET joined == ServicesOfPod(DC, P)
        byUID == GetServiceNameForPodUID(podServiceCache, P)
        byPod == GetServiceNameForPod(podServiceCache, [UID |-> P])
    IN /\ byPod = byUID
       /\ byUID.err <=> joined = {}
       /\ ~byUID.err => IsSmallest(byUID.service, NamesOf(DC, joined))
       /\ \A iter \in RangeOrders(joined) :
            firstSortedService(appendServiceNames(podServiceCache, iter)) = byUID

\* A pod joined to two services of which the one with the smaller key has the
\* greater name: the name returned is the other one's.
DeterministicResolutionWitness ==
  \E P \in PodUIDs :
    /\ ServicesOfPod(DC, P) = {<<"svc", 1>>, <<"svc", 2>>}
    /\ podServiceCache.svcUIDNameCache[<<"svc", 1>>] = "web-b"
    /\ podServiceCache.svcUIDNameCache[<<"svc", 2>>] = "web-a"
    /\ GetServiceNameForPodUID(podServiceCache, P) = [service |-> "web-a", err |-> FALSE]

\* ------------------------------------------------------------- C6
\* C6 (end-to-end scenario): from the empty cache, HandleAdd of a service
\* with a non-empty selector, then HandleAdd of a pod of its namespace whose
\* labels match, makes AllDimProperties hold the pod's record with the
\* property service equal to the service's name; HandleDelete of the service
\* then leaves the pod's record cached, without a service property.
ScenarioPairs ==
  {<<svc, pod>> \in Services \X Pods :
     /\ svc.Selector # EmptyMap
     /\ svc.Namespace = pod.Namespace
     /\ Matches(AsSelectorPreValidated(svc.Selector), pod.Labels)}

AfterAddAdd(dc, svc, pod) == HandleAdd(HandleAdd(dc, svc).dc, pod).dc

EndToEndScenario ==
  DC = NewDatapointCache =>
    \A sp \in ScenarioPairs :
      LET svc == sp[1]
          pod == sp[2]
          added == AfterAddAdd(DC, svc, pod)
          deleted == HandleDelete(added, svc).dc
      IN /\ \E rec \in AllDimProperties(added) :
              /\ rec.Dimension.Value = pod.UID
              /\ "service" \in DOMAIN rec.Properties
              /\ rec.Properties["service"] = svc.Name
         /\ \E rec \in AllDimProperties(deleted) :
              /\ rec.Dimension.Value = pod.UID
              /\ "service" \notin DOMAIN rec.Properties
         /\ \A rec \in AllDimProperties(deleted) :
              "service" \notin DOMAIN rec.Properties

\* The state the whole scenario ends in: the service added, the pod added, the
\* service deleted.
EndToEndScenarioWitness ==
  \E sp \in ScenarioPairs :
    DC = HandleDelete(AfterAddAdd(NewDatapointCache, sp[1], sp[2]), sp[1]).dc

\* ------------------------------------------------------------- C7
\* C7 (deletion cascades): after the delete of a service S that was joined
\* to pods, S is in no pod's service set and has no pod set; each pod that was
\* joined to S and matches no other cached service has no service property,
\* and each that still matches another has the smallest name among the
\* services it remains joined to.
DeletionCascades ==
  \A S \in SvcUIDs :
    PodsOfService(DC, S) # {} =>
      LET dc == DeleteByKey(DC, S)
      IN /\ \A P \in PodUIDs : S \notin ServicesOfPod(dc, P)
         /\ S \notin DOMAIN dc.podServiceCache.svcPodUIDCache
         /\ \A P \in PodsOfService(DC, S) :
              IF \E T \in SvcUIDs : StoredMatch(dc, P, T)
              THEN /\ HasServiceProp(dc, P)
                   /\ IsSmallest(ServiceProp(dc, P), NamesOf(dc, ServicesOfPod(dc, P)))
              ELSE ~HasServiceProp(dc, P)

\* ------------------------------------------------------------- C8
\* C8 (derived properties are resolved when a write returns): in every
\* state a write leaves, the service property of every cached pod's record is
\* the smallest of the current names of the services joined to the pod, and is
\* absent exactly when no service is joined to it.
DerivedPropsResolved ==
  \A P \in CachedPods(DC) \cap DOMAIN dimPropCache :
    /\ HasServiceProp(DC, P) <=> ServicesOfPod(DC, P) # {}
    /\ HasServiceProp(DC, P) =>
         IsSmallest(ServiceProp(DC, P), NamesOf(DC, ServicesOfPod(DC, P)))

\* A pod whose property is the name of its only service, beside a pod whose
\* last service has been deleted and whose record has lost the property.
DerivedPropsResolvedWitness ==
  \E P, Q \in CachedPods(DC), S \in SvcUIDs :
    /\ P # Q
    /\ ServicesOfPod(DC, P) = {S}
    /\ HasServiceProp(DC, P) /\ ServiceProp(DC, P) = "web-b"
    /\ Q \in DOMAIN podServiceCache.podSvcUIDCache
    /\ ServicesOfPod(DC, Q) = {} /\ ~HasServiceProp(DC, Q)

\* ------------------------------------------------------------- C10
\* C10 (update idempotence): from every reachable state and for every
\* resource, a second HandleAdd of the same resource leaves the whole cache as
\* the first left it, and returns the same key.
UpdateIdempotence ==
  \A obj \in Objects :
    LET once == HandleAdd(DC, obj)
    IN HandleAdd(once.dc, obj) = once

\* The cache right after HandleAdd of a pod that came to be joined to a
\* service: the pod's record carries the service property, and another
\* HandleAdd of the same pod changes nothing.
UpdateIdempotenceWitness ==
  \E pod \in Pods :
    /\ HasServiceProp(DC, pod.UID)
    /\ podServiceCache.podUIDLabelCache[pod.UID] = pod.Labels
    /\ podServiceCache.podUIDNamespaceCache[pod.UID] = pod.Namespace
    /\ HandleAdd(DC, pod).dc = DC

\* ------------------------------------------------------------- C9
\* C9 (no partial visibility): with the writer holding the lock around
\* HandleAdd and HandleDelete, whatever AllDatapoints or AllDimProperties
\* returns is what it returns of the cache as a whole write left it: the
\* cache before the write under way, or after it; never a state in between.
NoPartialVisibility ==
  snapshot.call # "none" => snapshot.result \in snapshot.whole

\* The step-by-step handler ends where the whole handler does.
StepwiseIsWhole ==
  writer.pc = "done" => DC = WriteWhole(writer.before, writer.call)

\* A read of the properties made between two writes, after the rename of a
\* service joined to both pods: both records carry the service's new name.
NoPartialVisibilityWitness ==
  /\ snapshot.call = "AllDimProperties"
  /\ Cardinality(snapshot.result) = 2
  /\ \A rec \in snapshot.result :
       "service" \in DOMAIN rec.Properties /\ rec.Properties["service"] = "web-b"
  /\ writer.pc = "idle"
  /\ PodsOfService(DC, <<"svc", 1>>) = {<<"pod", 1>>, <<"pod", 2>>}

\* ------------------------------------------------------------- C11
\* C11 (copy isolation of dimension properties): the records AllDimProperties
\* returns show the stored values, and no store through a returned record, to
\* its dimension name or value, to an entry of its property map or of its tag
\* map, changes anything the cache holds: a second AllDimProperties returns
\* the values the first did.
CopyIsolationDimProps ==
  \E first \in {AllDimPropertiesAt(heapOf(DC), DC, "first")} :
    /\ {DimPropertiesValue(first.heap, dp) : dp \in first.dimProps}
         = AllDimProperties(DC)
    /\ \A dp \in first.dimProps :
         \A heap \in StoresDimProperties(first.heap, dp) :
           /\ cacheOf(heap, DC) = DC
           /\ \E second \in {AllDimPropertiesAt(heap, DC, "second")} :
                {DimPropertiesValue(second.heap, q) : q \in second.dimProps}
                  = AllDimProperties(DC)

\* The record of a pod with a service: the caller deletes the property from
\* the copy, which then differs from the stored record.
CopyIsolationDimPropsWitness ==
  \E P \in CachedPods(DC) :
    /\ HasServiceProp(DC, P)
    /\ \E first \in {AllDimPropertiesAt(heapOf(DC), DC, "first")} :
         \E heap \in StoresDimProperties(first.heap, Ref("first", P, 0, "")) :
           /\ "service" \notin
                DOMAIN DimPropertiesValue(heap, Ref("first", P, 0, "")).Properties
           /\ "service" \in DOMAIN cacheOf(heap, DC).dimPropCache[P].Properties

\* ------------------------------------------------------------- C12
\* C12 (copy isolation of samples): the samples AllDatapoints returns show
\* the stored values, and no store through a returned sample, to its metric,
\* its value or an entry of its dimension map, changes anything the cache
\* holds: a second AllDatapoints returns the values the first did.
CopyIsolationSamples ==
  \E first \in {AllDatapointsAt(heapOf(DC), DC, "first")} :
    /\ {DatapointValue(first.heap, dp) : dp \in first.dps} = AllDatapoints(DC)
    /\ \A dp \in first.dps :
         \A heap \in StoresDatapoint(first.heap, dp) :
           /\ cacheOf(heap, DC) = DC
           /\ \E second \in {AllDatapointsAt(heap, DC, "second")} :
                {DatapointValue(second.heap, q) : q \in second.dps}
                  = AllDatapoints(DC)

\* The part of C12 the code keeps: a store to a field of the returned struct
\* (metric, value) stays with the caller.
CopyIsolationSampleFields ==
  \E first \in {AllDatapointsAt(heapOf(DC), DC, "first")} :
    \A dp \in first.dps :
      /\ cacheOf([first.heap EXCEPT ![dp].Metric = "mutated"], DC) = DC
      /\ cacheOf([first.heap EXCEPT ![dp].Value = 1 - @], DC) = DC

\* ------------------------------------------------------------- C13
\* C13 (malformed resource): for an object that carries no identity,
\* keyForObject fails, and HandleAdd and HandleDelete return nil and leave the
\* whole cache, the join index included, as it was.
MalformedLeavesCache ==
  \A obj \in Objects :
    "UID" \notin DOMAIN obj =>
      /\ keyForObject(obj).err
      /\ HandleAdd(DC, obj) = [dc |-> DC, ret |-> Nil]
      /\ HandleDelete(DC, obj) = [dc |-> DC, ret |-> Nil]

\* A cache with a pod joined to a service, given an object without identity:
\* both handlers return nil.
MalformedLeavesCacheWitness ==
  /\ \E P \in PodUIDs, S \in SvcUIDs : S \in ServicesOfPod(DC, P)
  /\ \E obj \in Statuses :
       /\ keyForObject(obj).err
       /\ HandleAdd(DC, obj).ret = Nil
       /\ HandleDelete(DC, obj).ret = Nil

\* ------------------------------------------------------------- C14
\* C14 (unknown resource kind): HandleAdd of an object of a type the switch
\* has no case for returns nil and leaves the sample store, the kind store,
\* the dimension-property store and the join index as they were; what the
\* reads return of the other keys is what they returned before.
UnknownKindLeavesCache ==
  \A obj \in ConfigMaps \cup Statuses :
    \E r \in {HandleAdd(DC, obj)} :
      /\ r.ret = Nil
      /\ r.dc.dpCache = dpCache
      /\ r.dc.uidKindCache = uidKindCache
      /\ r.dc.dimPropCache = dimPropCache
      /\ r.dc.podServiceCache = podServiceCache
      /\ AllDatapoints(r.dc) = AllDatapoints(DC)
      /\ AllDimProperties(r.dc) = AllDimProperties(DC)

\* A cache that holds a node and a pod with its service property, given a
\* resource with an identity and an unhandled type: its key is not stored.
UnknownKindLeavesCacheWitness ==
  /\ \E N \in NodeUIDs : N \in DOMAIN dpCache
  /\ \E P \in CachedPods(DC) : HasServiceProp(DC, P)
  /\ \E obj \in ConfigMaps :
       /\ ~keyForObject(obj).err
       /\ HandleAdd(DC, obj).ret = Nil
       /\ obj.UID \notin DOMAIN HandleAdd(DC, obj).dc.uidKindCache

\* ------------------------------------------------------------- C15
\* C15 (delete of an unknown key): DeleteByKey, and HandleDelete of an
\* object with that key, for a key the cache holds no kind for, leave the
\* whole cache as it was and do not fault.
NotCachedKeys == (UIDs \cup {obj.UID : obj \in ConfigMaps}) \ DOMAIN uidKindCache

UnknownKeyDeleteNoOp ==
  \A key \in NotCachedKeys :
    /\ DeleteByKey(DC, key) = DC
    /\ ~DeleteByKey(DC, key).panicked
    /\ \A oldObj \in DeletedObjects \cup ConfigMaps :
         oldObj.UID = key => HandleDelete(DC, oldObj) = [dc |-> DC, ret |-> key]

\* A cache with a pod joined to a service, and the key of the other pod,
\* which is not cached: its delete changes nothing.
UnknownKeyDeleteNoOpWitness ==
  \E P, Q \in PodUIDs, S \in SvcUIDs :
    /\ P \in CachedPods(DC) /\ S \in ServicesOfPod(DC, P)
    /\ Q \in NotCachedKeys
    /\ DeleteByKey(DC, Q) = DC

\* ------------------------------------------------------------- C16
\* C16 (delete purges the key everywhere): after DeleteByKey of a cached key
\* K, and after HandleDelete of a resource with that key, K has no entry in
\* the kind, sample or dimension-property stores, AllDatapoints returns no
\* sample and AllDimProperties no record of K, and if K was a pod it has no
\* label record and is in no service's pod set.
UIDDimensions == {"kubernetes_pod_uid", "kubernetes_node_uid"}

PurgedOf(dc, K, kind) ==
  /\ K \notin DOMAIN dc.uidKindCache
  /\ K \notin DOMAIN dc.dpCache
  /\ K \notin DOMAIN dc.dimPropCache
  /\ \A dp \in AllDatapoints(dc) :
       \A d \in UIDDimensions \cap DOMAIN dp.Dimensions : dp.Dimensions[d] # K
  /\ \A rec \in AllDimProperties(dc) : rec.Dimension.Value # K
  /\ kind = "Pod" =>
       /\ K \notin DOMAIN dc.podServiceCache.podUIDLabelCache
       /\ \A S \in DOMAIN dc.podServiceCache.svcPodUIDCache :
            K \notin dc.podServiceCache.svcPodUIDCache[S]

DeletePurgesKey ==
  \A K \in DOMAIN uidKindCache :
    /\ PurgedOf(DeleteByKey(DC, K), K, uidKindCache[K])
    /\ \A oldObj \in DeletedObjects :
         oldObj.UID = K =>
           HandleDelete(DC, oldObj) = [dc |-> DeleteByKey(DC, K), ret |-> K]

\* The cache right after the delete of a pod that was joined to a service: the
\* service's pod set is there and empty, and nothing of the pod is left.
DeletePurgesKeyWitness ==
  \E P \in PodUIDs, S \in CachedServices(DC) :
    /\ S \in DOMAIN podServiceCache.svcPodUIDCache
    /\ podServiceCache.svcPodUIDCache[S] = {}
    /\ PurgedOf(DC, P, "Pod")
    /\ DC = DeleteByKey(DC, P)

\* ------------------------------------------------------------- C17
\* C17 (no false "unchanged" for a new resource): for every pod and service
\* whose key the cache has never recorded, the pod with nil labels, the empty
\* namespace and no owner references included, IsCached returns false, and
\* SetPod and SetService of a join index that has never recorded the key do
\* not return without recording it.
NeverRecordedPod(pc, podUID) ==
  /\ podUID \notin DOMAIN pc.podUIDLabelCache
  /\ podUID \notin DOMAIN pc.podUIDNamespaceCache
  /\ podUID \notin DOMAIN pc.podUIDORCache
  /\ \A ns \in DOMAIN pc.namespacePodUIDCache : podUID \notin pc.namespacePodUIDCache[ns]

NeverRecordedService(sc, svcUID) ==
  /\ svcUID \notin DOMAIN sc.svcUIDSelectorCache
  /\ svcUID \notin DOMAIN sc.svcUIDNameCache
  /\ svcUID \notin DOMAIN sc.svcUIDNamespaceCache

NewPodIsChanged(pod) ==
  /\ NeverRecordedPod(podCache, pod.UID) => ~PodCacheIsCached(podCache, pod)
  /\ pod.UID \notin DOMAIN podServiceCache.podUIDLabelCache =>
       pod.UID \in DOMAIN SetPod(podServiceCache, pod).podUIDLabelCache

NewServiceIsChanged(svc) ==
  /\ NeverRecordedService(serviceCache, svc.UID) =>
       ~ServiceCacheIsCached(serviceCache, svc)
  /\ (NeverRecordedService(podServiceCache, svc.UID) /\ svc.Selector # EmptyMap) =>
       svc.UID \in DOMAIN SetService(podServiceCache, svc).svcUIDSelectorCache

NewResourceIsChanged ==
  /\ \A pod \in CachePods : NewPodIsChanged(pod)
  /\ \A svc \in CacheServices : NewServiceIsChanged(svc)

\* The part of C17 the code keeps: the services, and every pod but the ones
\* with nil labels and the empty namespace.
NewResourceIsChangedUnlessZero ==
  /\ \A pod \in CachePods :
       (pod.Labels # EmptyMap \/ pod.Namespace # "") => NewPodIsChanged(pod)
  /\ \A svc \in CacheServices : NewServiceIsChanged(svc)

\* ------------------------------------------------------------- C18
\* The services whose stored selector matches the labels, in the namespace
MatchingServices(psc, labelSet, namespace) ==
  {S \in DOMAIN psc.svcUIDSelectorCache :
     /\ Matches(psc.svcUIDSelectorCache[S], labelSet)
     /\ Lookup(psc.svcUIDNamespaceCache, S, "") = namespace}

\* The pods whose stored labels the selector matches, in the namespace
MatchingPods(psc, selector, namespace) ==
  {P \in DOMAIN psc.podUIDLabelCache :
     /\ Matches(selector, psc.podUIDLabelCache[P])
     /\ Lookup(psc.podUIDNamespaceCache, P, "") = namespace}

\* Every relation of the join index is a match of what is stored, and back
JoinIsExact(psc) ==
  \A P \in PodUIDs, S \in SvcUIDs :
    /\ S \in Lookup(psc.podSvcUIDCache, P, {}) <=> StoredMatch([podServiceCache |-> psc], P, S)
    /\ P \in Lookup(psc.svcPodUIDCache, S, {}) <=> StoredMatch([podServiceCache |-> psc], P, S)

\* C18 (pod upsert rebuilds membership from scratch): from a join index
\* whose relations are exactly the matches, SetPod of a cached pod with other
\* labels or another namespace leaves the pod joined, in both directions, to
\* exactly the cached services whose selector matches the new labels in the
\* new namespace.
PodUpsertRebuilds ==
  JoinIsExact(podServiceCache) =>
    \A pod \in Pods :
      (/\ pod.UID \in DOMAIN podServiceCache.podUIDLabelCache
       /\ \/ podServiceCache.podUIDLabelCache[pod.UID] # pod.Labels
          \/ podServiceCache.podUIDNamespaceCache[pod.UID] # pod.Namespace)
      => \E psc \in {SetPod(podServiceCache, pod)} :
           /\ Lookup(psc.podSvcUIDCache, pod.UID, {})
                = MatchingServices(psc, pod.Labels, pod.Namespace)
           /\ \A S \in SvcUIDs :
                pod.UID \in Lookup(psc.svcPodUIDCache, S, {})
                  <=> S \in MatchingServices(psc, pod.Labels, pod.Namespace)

\* ------------------------------------------------------------- C19
\* C19 (service upsert drops stale relations): from a join index whose
\* relations are exactly the matches, HandleAdd of a cached service with
\* another non-empty selector or another namespace leaves the service joined,
\* in both directions, to exactly the cached pods the new selector matches in
\* the new namespace; a pod that was joined to it and no longer matches has
\* no service property, or has the smallest name of the other services that
\* match it.
ServiceUpsertDropsStale ==
  JoinIsExact(podServiceCache) =>
    \A svc \in Services :
      (/\ svc.UID \in DOMAIN podServiceCache.svcUIDSelectorCache
       /\ svc.Selector # EmptyMap
       /\ \/ podServiceCache.svcUIDSelectorCache[svc.UID]
               # AsSelectorPreValidated(svc.Selector)
          \/ podServiceCache.svcUIDNamespaceCache[svc.UID] # svc.Namespace)
      => \E dc \in {HandleAdd(DC, svc).dc} :
           LET psc == dc.podServiceCache
               now == MatchingPods(psc, AsSelectorPreValidated(svc.Selector),
                                   svc.Namespace)
           IN /\ Lookup(psc.svcPodUIDCache, svc.UID, {}) = now
              /\ \A P \in PodUIDs :
                   svc.UID \in Lookup(psc.podSvcUIDCache, P, {}) <=> P \in now
              /\ \A P \in PodsOfService(DC, svc.UID) \ now :
                   HasServiceProp(dc, P) =>
                     IsSmallest(ServiceProp(dc, P),
                                NamesOf(dc, {T \in SvcUIDs \ {svc.UID} :
                                               StoredMatch(dc, P, T)}))

\* ------------------------------------------------------------- C20
\* C20 (order independence of adds): from every reachable state, for every
\* pod and service neither of which is cached, HandleAdd of the pod and then
\* of the service leaves the join index and the pod's service property that
\* HandleAdd of the service and then of the pod leaves.
AddsCommute ==
  \A pod \in {p \in Pods : p.UID \notin DOMAIN uidKindCache} :
    \A svc \in {s \in Services : s.UID \notin DOMAIN uidKindCache} :
      \E podFirst \in {HandleAdd(HandleAdd(DC, pod).dc, svc).dc} :
        \E svcFirst \in {HandleAdd(HandleAdd(DC, svc).dc, pod).dc} :
          /\ podFirst.podServiceCache = svcFirst.podServiceCache
          /\ HasServiceProp(podFirst, pod.UID) <=> HasServiceProp(svcFirst, pod.UID)
          /\ HasServiceProp(podFirst, pod.UID) =>
               ServiceProp(podFirst, pod.UID) = ServiceProp(svcFirst, pod.UID)

\* The cache either order of the adds of a matching pod and service leaves,
\* from the cache without the two: the pod is joined to the service and its
\* service property is resolved.
AddsCommuteWitness ==
  \E sp \in ScenarioPairs :
    \E base \in {DeleteByKey(DeleteByKey(DC, sp[2].UID), sp[1].UID)} :
      /\ base # NewDatapointCache
      /\ DC = HandleAdd(HandleAdd(base, sp[2]).dc, sp[1]).dc
      /\ DC = HandleAdd(HandleAdd(base, sp[1]).dc, sp[2]).dc
      /\ sp[1].UID \in ServicesOfPod(DC, sp[2].UID)
      /\ HasServiceProp(DC, sp[2].UID)


\* ------------------------------------------------------------- C21
\* The value a record has for a property; "" when it has none
PropertyOf(dimProps, name) == Lookup(dimProps.Properties, name, "")

\* The cached records of a kind
CachedOfKind(dc, kind) ==
  {k \in DOMAIN dc.dimPropCache : Lookup(dc.uidKindCache, k, "") = kind}

\* The source records of the cache that match a record of the target kind
MatchingSources(dc, dimProps, link) ==
  {k \in CachedOfKind(dc, link.SourceKind) :
     /\ PropertyOf(dc.dimPropCache[k], link.SourceJoinKey) # ""
     /\ PropertyOf(dc.dimPropCache[k], link.SourceJoinKey)
          = PropertyOf(dimProps, link.TargetJoinKey)}

\* The target records of the cache that match a record of the source kind
MatchingTargets(dc, dimProps, link) ==
  {k \in CachedOfKind(dc, link.TargetKind) :
     /\ PropertyOf(dc.dimPropCache[k], link.TargetJoinKey) # ""
     /\ PropertyOf(dc.dimPropCache[k], link.TargetJoinKey)
          = PropertyOf(dimProps, link.SourceJoinKey)}

\* C21: with a link in the list, the update of a record of the target kind
\* copies the source property of a cached source record into the record only
\* if that record's join key is not empty and equals the record's target join
\* key (with no such source record the record is stored as it came); the
\* update of a record of the source kind writes its source property into the
\* cached target records whose join key is not empty and equals the record's
\* source join key, and into no other record.  A join key that is absent or
\* empty matches in neither direction.
LinkMatching ==
  \A rec \in LinkRecords :
    \A iter \in RangeOrders(DOMAIN dimPropCache) :
      \E before \in {WithKind(DC, rec.key, rec.kind)} :
        \E after \in {addDimPropsToCacheWith(before, rec.key, rec.dimProps,
                                               <<ReplicaSetLink>>, iter)} :
          LET link == ReplicaSetLink
              sources == MatchingSources(before, rec.dimProps, link)
              targets == MatchingTargets(before, rec.dimProps, link) \ {rec.key}
              stored == after.dimPropCache[rec.key]
          IN /\ rec.kind = link.TargetKind =>
                  /\ IF sources = {}
                     THEN stored = rec.dimProps
                     ELSE \E k \in sources :
                            stored =
                              [rec.dimProps EXCEPT
                                 !.Properties =
                                   MapSet(@, link.TargetProperty,
                                          PropertyOf(before.dimPropCache[k],
                                                     link.SourceProperty))]
                  /\ PropertyOf(rec.dimProps, link.TargetJoinKey) = ""
                       => stored = rec.dimProps
                  /\ \A k \in DOMAIN before.dimPropCache \ {rec.key} :
                       after.dimPropCache[k] = before.dimPropCache[k]
             /\ rec.kind = link.SourceKind =>
                  /\ stored = rec.dimProps
                  /\ \A k \in DOMAIN before.dimPropCache \ {rec.key} :
                       after.dimPropCache[k] =
                         IF k \in targets
                         THEN [before.dimPropCache[k] EXCEPT
                                 !.Properties =
                                   MapSet(@, link.TargetProperty,
                                          PropertyOf(rec.dimProps,
                                                     link.SourceProperty))]
                         ELSE before.dimPropCache[k]
                  /\ PropertyOf(rec.dimProps, link.SourceJoinKey) = ""
                       => targets = {}
                  /\ \A k \in targets :
                       PropertyOf(before.dimPropCache[k], link.TargetJoinKey) # ""

\* A pod carries the deployment of the replica set it names, next to a pod
\* and a replica set that have no join key and were left alone.
LinkMatchingWitness ==
  \E p \in PodUIDs, r \in ReplicaSetUIDs :
    /\ p \in DOMAIN dimPropCache /\ r \in DOMAIN dimPropCache
    /\ PropertyOf(dimPropCache[r], "name") = "a"
    /\ PropertyOf(dimPropCache[p], "replicaSet") = "a"
    /\ PropertyOf(dimPropCache[r], "deployment") = "a"
    /\ PropertyOf(dimPropCache[p], "deployment") = "a"
    /\ \E q \in PodUIDs \ {p}, t \in ReplicaSetUIDs \ {r} :
         /\ q \in DOMAIN dimPropCache /\ t \in DOMAIN dimPropCache
         /\ PropertyOf(dimPropCache[q], "replicaSet") = ""
         /\ PropertyOf(dimPropCache[t], "name") = ""
         /\ PropertyOf(dimPropCache[t], "deployment") = "a"
         /\ "deployment" \notin DOMAIN dimPropCache[q].Properties


\* ------------------------------------------------------------- C22
\* C22: after DeleteByKey of a key the PodCache has nothing of the pod left:
\* GetLabels and GetOwnerReferences of the key give the empty values, no
\* namespace lists the key, and IsCached answers for every pod of that key
\* what a cache that never held the key answers.
PodDeleteRemovesAll ==
  \A key \in PodUIDs :
    \E after \in {PodCacheDeleteByKey(podCache, key)} :
      /\ GetLabels(after, key) = EmptyMap
      /\ GetOwnerReferences(after, key) = <<>>
      /\ \A ns \in DOMAIN after.namespacePodUIDCache :
           key \notin GetPodsInNamespace(after, ns)
      /\ \A pod \in CachePods :
           pod.UID = key =>
             PodCacheIsCached(after, pod) = PodCacheIsCached(NewPodCache, pod)

\* The part of C22 that is about the labels and the namespace of the key
PodDeleteRemovesLabels ==
  \A key \in PodUIDs :
    \E after \in {PodCacheDeleteByKey(podCache, key)} :
      /\ GetLabels(after, key) = EmptyMap
      /\ key \notin DOMAIN after.podUIDNamespaceCache
      /\ key \notin DOMAIN after.podUIDLabelCache


\* ------------------------------------------------------------- C23
\* C23 (no fault on the re-resolution of the property): in every reachable
\* state every pod key in the pod set of a service has a stored record of
\* dimension properties, and no call of updateServicePropForPods, for a
\* service added, updated or deleted, has read the record of a pod that has
\* none.
JoinedPodsHaveRecords ==
  /\ panicked = FALSE
  /\ \A S \in DOMAIN podServiceCache.svcPodUIDCache :
       PodsOfService(DC, S) \subseteq DOMAIN dimPropCache

\* A service has resolved the property of the pod joined to it, after the
\* other pod, which it matched as well, was deleted with its record.
JoinedPodsHaveRecordsWitness ==
  \E P, Q \in PodUIDs, S \in SvcUIDs :
    /\ P # Q
    /\ PodsOfService(DC, S) = {P}
    /\ HasServiceProp(DC, P)
    /\ ServiceProp(DC, P) = Lookup(podServiceCache.svcUIDNameCache, S, "")
    /\ Q \notin DOMAIN dimPropCache
    /\ Q \notin DOMAIN podServiceCache.podUIDLabelCache
    /\ \A T \in SvcUIDs : Q \notin PodsOfService(DC, T)


\* ------------------------------------------------------------- C24
\* C24 (join completeness): in every reachable state, every cached pod and
\* cached service that are in one namespace and whose stored selector matches
\* the stored labels are joined, in both directions, whichever of the two was
\* added or updated last.
JoinCompleteness ==
  \A P \in PodUIDs, S \in SvcUIDs :
    StoredMatch(DC, P, S) =>
      S \in ServicesOfPod(DC, P) /\ P \in PodsOfService(DC, S)

\* Both pods match both services and each is joined to both, so a pair is
\* there whose pod came last and one whose service came last; the samples of
\* the pods say they were added.
JoinCompletenessWitness ==
  \E S, T \in SvcUIDs :
    /\ S # T
    /\ PodUIDs \subseteq DOMAIN dpCache
    /\ \A P \in PodUIDs :
         /\ StoredMatch(DC, P, S) /\ StoredMatch(DC, P, T)
         /\ ServicesOfPod(DC, P) = {S, T}
    /\ PodsOfService(DC, S) = PodUIDs /\ PodsOfService(DC, T) = PodUIDs

\* ------------------------------------------------------------- C25
\* C25 (no dangling join references): in every reachable state every service
\* key in a pod's service set has a stored selector, namespace and name, and
\* every pod key in a service's pod set has a stored label set and namespace;
\* the service property resolved for a pod is the stored name of a cached
\* service joined to it, and never the empty string.
NoDanglingReferences ==
  LET psc == podServiceCache
  IN /\ \A P \in DOMAIN psc.podSvcUIDCache :
          \A S \in psc.podSvcUIDCache[P] :
            /\ S \in DOMAIN psc.svcUIDSelectorCache
            /\ S \in DOMAIN psc.svcUIDNamespaceCache
            /\ S \in DOMAIN psc.svcUIDNameCache
     /\ \A S \in DOMAIN psc.svcPodUIDCache :
          \A P \in psc.svcPodUIDCache[S] :
            /\ P \in DOMAIN psc.podUIDLabelCache
            /\ P \in DOMAIN psc.podUIDNamespaceCache
     /\ \A P \in PodUIDs :
          \E r \in {GetServiceNameForPodUID(psc, P)} :
            ~r.err =>
              /\ r.service # ""
              /\ \E S \in ServicesOfPod(DC, P) \cap CachedServices(DC) :
                   /\ S \in DOMAIN psc.svcUIDNameCache
                   /\ psc.svcUIDNameCache[S] = r.service
     /\ \A P \in PodUIDs :
          HasServiceProp(DC, P) =>
            /\ ServiceProp(DC, P) # ""
            /\ \E S \in ServicesOfPod(DC, P) \cap CachedServices(DC) :
                 /\ S \in DOMAIN psc.svcUIDNameCache
                 /\ psc.svcUIDNameCache[S] = ServiceProp(DC, P)

\* A pod resolved to the one service that is left to it, after the delete of
\* another service, to which a pod that is still cached had been joined.
NoDanglingReferencesWitness ==
  \E P, Q \in PodUIDs, S, T \in SvcUIDs :
    /\ P # Q /\ S # T
    /\ ServicesOfPod(DC, P) = {S}
    /\ HasServiceProp(DC, P)
    /\ ServiceProp(DC, P) = podServiceCache.svcUIDNameCache[S]
    /\ T \notin DOMAIN podServiceCache.svcUIDNameCache
    /\ T \notin DOMAIN uidKindCache
    /\ Q \in DOMAIN podServiceCache.podSvcUIDCache
    /\ ServicesOfPod(DC, Q) = {}
    /\ ~HasServiceProp(DC, Q) /\ Q \in DOMAIN dimPropCache


\* ------------------------------------------------------------- C26
\* What the two caches agree on outside the key: the join index, and the
\* samples, the kind and the record of every other key
SameButKey(dc, before, key) ==
  /\ dc.podServiceCache = before.podServiceCache
  /\ dc.panicked = before.panicked
  /\ DOMAIN dc.dpCache \ {key} = DOMAIN before.dpCache \ {key}
  /\ DOMAIN dc.uidKindCache \ {key} = DOMAIN before.uidKindCache \ {key}
  /\ DOMAIN dc.dimPropCache \ {key} = DOMAIN before.dimPropCache \ {key}
  /\ \A k \in DOMAIN before.dpCache \ {key} : dc.dpCache[k] = before.dpCache[k]
  /\ \A k \in DOMAIN before.uidKindCache \ {key} :
       dc.uidKindCache[k] = before.uidKindCache[k]
  /\ \A k \in DOMAIN before.dimPropCache \ {key} :
       dc.dimPropCache[k] = before.dimPropCache[k]

\* C26 (frame of the kinds that take no part in the join): HandleAdd and
\* HandleDelete of a resource that is neither a pod nor a service leave the
\* join index and the samples, the kind and the record of every other key,
\* the service properties of the pods among them, as they were; only what is
\* stored under the key of the resource changes.
NonJoinKindFrame ==
  \A obj \in Nodes \cup ConfigMaps :
    /\ \E r \in {HandleAdd(DC, obj)} :
         /\ SameButKey(r.dc, DC, obj.UID)
         /\ obj.kind = "Node" =>
              /\ r.ret = obj.UID
              /\ r.dc.uidKindCache[obj.UID] = "Node"
              /\ r.dc.dimPropCache[obj.UID] = dimPropsForNode(obj)
              /\ r.dc.dpCache[obj.UID] = datapointsForNode(obj)
    /\ \E r \in {HandleDelete(DC, obj)} :
         /\ SameButKey(r.dc, DC, obj.UID)
         /\ r.ret = obj.UID
         /\ obj.UID \notin DOMAIN r.dc.uidKindCache
         /\ obj.UID \notin DOMAIN r.dc.dpCache
         /\ obj.UID \notin DOMAIN r.dc.dimPropCache

\* A node has been added beside two pods that are joined to a service and
\* carry its name.
NonJoinKindFrameWitness ==
  \E N \in NodeUIDs, S \in SvcUIDs :
    /\ N \in DOMAIN dimPropCache /\ N \in DOMAIN dpCache
    /\ Lookup(uidKindCache, N, "") = "Node"
    /\ PodsOfService(DC, S) = PodUIDs
    /\ \A P \in PodUIDs :
         /\ HasServiceProp(DC, P)
         /\ ServiceProp(DC, P) = podServiceCache.svcUIDNameCache[S]

====
